---- MODULE Spec2Model ----
(***************************************************************************)
(* A model of the GraphAnnotator widget (graph-annotator.js).              *)
(*                                                                         *)
(* JavaScript objects (a node, an edge, the options) are functions whose   *)
(* DOMAIN is the set of keys the object has: a key that is not in the      *)
(* DOMAIN reads as undefined.  Arrays are functions on 0..n-1.  A 2D       *)
(* position [x, y] and the pair edge.index are tuples, so position[0] of   *)
(* the source is position[1] here.                                         *)
(***************************************************************************)
EXTENDS Integers, Sequences, FiniteSets, TLC

VARIABLES
  graph,         \* the graph object: [nodes |-> array, edges |-> array]
  options,       \* the options object after initialize()
  canvas,        \* the drawing surface: no keys until the image has loaded
  wired,         \* initializeEvents() has registered the three listeners
  mousestatus,   \* closure variable of initializeEvents
  current_node,  \* closure variable of initializeEvents
  calls,         \* the callbacks invoked so far, in order, with arguments
  rendered,      \* what the last renderGraph() stroked on the canvas
  error,         \* the exception the last handler or API call raised
  last,          \* the last event or API call, with its inputs
  ngestures,     \* number of presses that started a gesture
  nsetcalls,     \* number of attribute setter calls made
  placement      \* the release positions of a run of first placements

vars == <<graph, options, canvas, wired, mousestatus, current_node, calls,
          rendered, error, last, ngestures, nsetcalls, placement>>

-----------------------------------------------------------------------------
(* Bounds of the model *)

\* Pixel size of the loaded image (and so of the canvas).
ImageWidth == 3
ImageHeight == 1
\* How far beyond the canvas edges a pointer event can be.
Margin == 1
\* Number of gestures in one behaviour.
MaxGestures == 2
\* Number of attribute setter calls in one behaviour.
MaxSetCalls == 2

-----------------------------------------------------------------------------
(* Values *)

null == -1
Infinity == 1000000
NoPosition == << >>
Undefined == << >>

Length(array) == Cardinality(DOMAIN array)

Has(object, key) == key \in DOMAIN object

\* Pointer coordinates relative to the container, before clamping:
\* event.pageX - container.offsetLeft + container.scrollLeft.
Coordinates(size) == {0 - Margin} \cup (0..(size - 1)) \cup {size - 1 + Margin}

RawPoints == Coordinates(ImageWidth) \X Coordinates(ImageHeight)

\* The pixels of the canvas.
CanvasPoints == (0..(ImageWidth - 1)) \X (0..(ImageHeight - 1))

\* The canvas is laid at left 0, top 0 of the container with the size of the
\* image, so the pointer is over it when both coordinates are inside.
OverCanvas(p) ==
  /\ Has(canvas, "width")
  /\ p[1] >= 0 /\ p[1] <= canvas.width - 1
  /\ p[2] >= 0 /\ p[2] <= canvas.height - 1

Max(a, b) == IF a >= b THEN a ELSE b
Min(a, b) == IF a <= b THEN a ELSE b

\* getPosition without the clamping.
getPosition_NoClamp(p) == <<p[1], p[2]>>

\* getPosition(event): the event's coordinate clamped to the canvas.
getPosition(p) ==
  << Max(Min(p[1], canvas.width - 1), 0),
     Max(Min(p[2], canvas.height - 1), 0) >>

-----------------------------------------------------------------------------
(* findNode *)

\* The square of the value Math.sqrt is applied to.  Math.sqrt is monotone
\* and exact on these integers, so distances are compared by their squares.
Distance2(a, b) == (a[1] - b[1]) * (a[1] - b[1]) + (a[2] - b[2]) * (a[2] - b[2])

\* Closer with the hit radius exclusive.
Closer_Strict(distance2, hit, min_distance2) ==
  /\ distance2 < hit * hit
  /\ distance2 <= min_distance2

\* Closer keeping the first of two nodes at the same distance.
Closer_First(distance2, hit, min_distance2) ==
  /\ distance2 <= hit * hit
  /\ distance2 < min_distance2

\* distance <= options['hit_distance'] && distance <= min_distance
Closer(distance2, hit, min_distance2) ==
  /\ distance2 <= hit * hit
  /\ distance2 <= min_distance2

\* The first loop of findNode, from index i on.
RECURSIVE NearestFrom(_, _, _, _, _, _)
NearestFrom(nodes, position, hit, i, min_distance2, candidate) ==
  IF i >= Length(nodes) THEN candidate
  ELSE IF Has(nodes[i], "position") /\
          Closer(Distance2(nodes[i].position, position), hit, min_distance2)
       THEN NearestFrom(nodes, position, hit, i + 1,
                        Distance2(nodes[i].position, position), i)
       ELSE NearestFrom(nodes, position, hit, i + 1, min_distance2, candidate)

\* The second loop of findNode without its break.
RECURSIVE UnfinishedFrom_NoBreak(_, _)
UnfinishedFrom_NoBreak(nodes, i) ==
  IF i >= Length(nodes) THEN null
  ELSE LET rest == UnfinishedFrom_NoBreak(nodes, i + 1)
       IN IF rest # null THEN rest
          ELSE IF ~Has(nodes[i], "position") THEN i ELSE null

\* The second loop of findNode, from index i on.
RECURSIVE UnfinishedFrom(_, _)
UnfinishedFrom(nodes, i) ==
  IF i >= Length(nodes) THEN null
  ELSE IF ~Has(nodes[i], "position") THEN i
       ELSE UnfinishedFrom(nodes, i + 1)

findNode(g, o, position) ==
  LET candidate == IF position # NoPosition
                   THEN NearestFrom(g.nodes, position, o.hit_distance, 0,
                                    Infinity, null)
                   ELSE null
  IN IF candidate = null THEN UnfinishedFrom(g.nodes, 0) ELSE candidate

getNextNode(g, o) == findNode(g, o, NoPosition)

-----------------------------------------------------------------------------
(* renderGraph *)

formatRGB(rgb) ==
  "rgb(" \o ToString(rgb[1]) \o "," \o ToString(rgb[2]) \o "," \o
  ToString(rgb[3]) \o ")"

\* element[key] || options[okey] || fallback, for a number (0 is falsy).
NumberOr(element, key, o, okey, fallback) ==
  IF Has(element, key) /\ element[key] # 0 THEN element[key]
  ELSE IF Has(o, okey) /\ o[okey] # 0 THEN o[okey]
  ELSE fallback

\* element[key] || options[okey] || fallback, for an array (always truthy).
ArrayOr(element, key, o, okey, fallback) ==
  IF Has(element, key) THEN element[key]
  ELSE IF Has(o, okey) THEN o[okey]
  ELSE fallback

\* The edge loop of renderGraph, from edge i on.  Reading .position of a
\* node that does not exist raises a TypeError and ends the rendering.
RECURSIVE DrawEdges(_, _, _, _)
DrawEdges(g, o, i, ops) ==
  IF i >= Length(g.edges) THEN [ops |-> ops, threw |-> FALSE]
  ELSE
    LET edge == g.edges[i]
        a == edge.index[1]
        b == edge.index[2]
    IN IF a \notin DOMAIN g.nodes THEN [ops |-> ops, threw |-> TRUE]
       ELSE IF ~Has(g.nodes[a], "position") THEN DrawEdges(g, o, i + 1, ops)
       ELSE IF b \notin DOMAIN g.nodes THEN [ops |-> ops, threw |-> TRUE]
       ELSE IF ~Has(g.nodes[b], "position") THEN DrawEdges(g, o, i + 1, ops)
       ELSE DrawEdges(g, o, i + 1, Append(ops,
              [kind |-> "edge", element |-> i,
               lineWidth |-> NumberOr(edge, "line_width", o, "line_width", 3),
               strokeStyle |-> formatRGB(ArrayOr(edge, "color", o, "edge_color",
                                                 <<0, 255, 255>>)),
               moveTo |-> g.nodes[a].position,
               lineTo |-> g.nodes[b].position]))

\* The node loop of renderGraph, from node i on.
RECURSIVE DrawNodes(_, _, _, _)
DrawNodes(g, o, i, ops) ==
  IF i >= Length(g.nodes) THEN ops
  ELSE
    LET node == g.nodes[i]
    IN IF Has(node, "position")
       THEN DrawNodes(g, o, i + 1, Append(ops,
              [kind |-> "node", element |-> i,
               lineWidth |-> NumberOr(node, "line_width", o, "line_width", 3),
               strokeStyle |-> formatRGB(ArrayOr(node, "color", o, "node_color",
                                                 <<0, 255, 255>>)),
               center |-> node.position,
               radius |-> NumberOr(node, "diameter", o, "node_diameter", 3)]))
       ELSE DrawNodes(g, o, i + 1, ops)

\* renderGraph stroking the nodes before the edges.
renderGraph_NodesFirst(g, o, cv, before) ==
  IF ~Has(cv, "width") THEN [ops |-> before, threw |-> TRUE]
  ELSE LET e == DrawEdges(g, o, 0, DrawNodes(g, o, 0, << >>))
       IN e

\* renderGraph(): the canvas is cleared, then edges and nodes are stroked.
\* Before the image has loaded there is no canvas and the call raises.
renderGraph(g, o, cv, before) ==
  IF ~Has(cv, "width") THEN [ops |-> before, threw |-> TRUE]
  ELSE LET e == DrawEdges(g, o, 0, << >>)
       IN IF e.threw THEN e
          ELSE [ops |-> DrawNodes(g, o, 0, e.ops), threw |-> FALSE]

-----------------------------------------------------------------------------
(* updateNode *)

\* SetPosition replacing the node object.
SetPosition_Replace(g, i, position) ==
  [g EXCEPT !.nodes[i] = [position |-> position]]

\* graph.nodes[current_node].position = getPosition(event)
SetPosition(g, i, position) ==
  [g EXCEPT !.nodes[i] =
     [k \in DOMAIN g.nodes[i] \cup {"position"} |->
        IF k = "position" THEN position ELSE g.nodes[i][k]]]

\* updateNode(event, current_node): the graph after the call, and what the
\* call rendered.
updateNode(g, p, node) ==
  IF node # null
  THEN LET g2 == SetPosition(g, node, getPosition(p))
       IN [graph |-> g2, render |-> renderGraph(g2, options, canvas, rendered)]
  ELSE [graph |-> g, render |-> [ops |-> rendered, threw |-> FALSE]]

\* One entry of the callback log: the callback, the node index it is given
\* and what it finds when it runs: what annotator.getNextNode() returns,
\* whether its node is, in annotator.getGraph(), at the position of the event
\* being handled, whether the canvas shows that graph, and the listeners'
\* variables.
CallOf(name, node, g, position, ops, cv, status, bound, listening) ==
  [callback |-> name, node |-> node, next |-> getNextNode(g, options),
   moved |-> /\ node \in DOMAIN g.nodes
             /\ Has(g.nodes[node], "position")
             /\ g.nodes[node].position = position,
   fresh |-> (ops = renderGraph(g, options, cv, ops).ops),
   mousestatus |-> status, current_node |-> bound, wired |-> listening]

-----------------------------------------------------------------------------
(* initialize *)

EmptyObject == << >>

\* The graph initialize() uses when options['graph'] is not given.
DefaultGraph ==
  [nodes |-> [i \in 0..1 |-> [name |-> IF i = 0 THEN "node1" ELSE "node2"]],
   edges |-> [i \in 0..0 |-> [index |-> <<0, 1>>, color |-> <<0, 255, 255>>]]]

\* A caller's graph: n nodes {} in a chain, as in the README's structure.
Chain(n) ==
  [nodes |-> [i \in 0..(n - 1) |-> EmptyObject],
   edges |-> [i \in 0..(n - 2) |-> [index |-> <<i, i + 1>>]]]

\* A caller's graph with more edges than nodes.
Loops ==
  [nodes |-> [i \in 0..0 |-> EmptyObject],
   edges |-> [i \in 0..1 |-> [index |-> <<0, 0>>]]]

\* A caller's graph with as many edges as nodes, already annotated.
PlacedPair ==
  [nodes |-> [i \in 0..1 |-> [position |-> <<i, 0>>]],
   edges |-> [i \in 0..1 |-> [index |-> <<i, 1 - i>>]]]

\* A caller's graph with more nodes than edges, already annotated.
Annotated ==
  [nodes |-> [i \in 0..1 |-> [position |-> <<i, 0>>]],
   edges |-> [i \in 0..0 |-> [index |-> <<0, 1>>]]]

\* A caller's graph of a resumed annotation: node 1 has a position already.
Resumed ==
  [nodes |-> [i \in 0..1 |-> IF i = 1 THEN [name |-> "neck",
                                             position |-> <<2, 0>>]
                                       ELSE EmptyObject],
   edges |-> [i \in 0..0 |-> [index |-> <<0, 1>>]]]

\* A caller's graph whose edge ends at a node index that does not exist.
DanglingEnd ==
  [nodes |-> [i \in 0..1 |-> EmptyObject],
   edges |-> [i \in 0..0 |-> [index |-> <<1, 2>>]]]

\* A caller's graph whose edge starts at a node index that does not exist.
DanglingStart ==
  [nodes |-> [i \in 0..1 |-> EmptyObject],
   edges |-> [i \in 0..0 |-> [index |-> <<2, 0>>]]]

\* The options objects of the specification of malformed graphs.
InvalidOptionChoices ==
  { [graph |-> DanglingEnd, onchange |-> TRUE, onselect |-> TRUE,
     onload |-> TRUE, hit_distance |-> 1],
    [graph |-> DanglingStart, onchange |-> TRUE, onload |-> TRUE,
     hit_distance |-> 1] }

\* The options objects a caller constructs the annotator with.
OptionChoices ==
  { [graph |-> Chain(3), onchange |-> TRUE, onselect |-> TRUE,
     onload |-> TRUE, hit_distance |-> 1],
    [graph |-> Resumed, onchange |-> TRUE, onload |-> TRUE,
     hit_distance |-> 1],
    [onchange |-> TRUE, onselect |-> TRUE],
    [graph |-> Chain(2), onchange |-> TRUE, hit_distance |-> 1],
    [graph |-> Chain(2), onselect |-> TRUE, onload |-> TRUE] }

\* The options objects of the attribute setters' specification.
AttrOptionChoices ==
  { [onchange |-> TRUE],
    [graph |-> Chain(3), onchange |-> TRUE],
    [graph |-> Loops, onchange |-> TRUE],
    [graph |-> PlacedPair, onchange |-> TRUE, line_width |-> 2],
    [graph |-> Annotated, onchange |-> TRUE] }

\* options['hit_distance'] = options['hit_distance'] || 10
initializeOptions(o) ==
  [k \in (DOMAIN o \cup {"hit_distance"}) \ {"graph"} |->
     IF k = "hit_distance"
     THEN (IF Has(o, k) /\ o[k] # 0 THEN o[k] ELSE 10)
     ELSE o[k]]

\* graph = options['graph'] || { the default graph }
initializeGraph(o) == IF Has(o, "graph") THEN o.graph ELSE DefaultGraph

Placed(g) == {i \in DOMAIN g.nodes : Has(g.nodes[i], "position")}

Unplaced(g) == DOMAIN g.nodes \ Placed(g)

InitWith(choices) ==
  /\ \E o \in choices :
       /\ options = initializeOptions(o)
       /\ graph = initializeGraph(o)
  /\ canvas = Undefined
  /\ wired = FALSE
  /\ mousestatus = FALSE
  /\ current_node = null
  /\ calls = << >>
  /\ rendered = << >>
  /\ error = "none"
  /\ last = <<"create">>
  /\ ngestures = 0
  /\ nsetcalls = 0
  /\ placement = [ok |-> Placed(graph) = {}, releases |-> << >>]

Init == InitWith(OptionChoices)

InitAttr == InitWith(AttrOptionChoices)

InitInvalid == InitWith(InvalidOptionChoices)

-----------------------------------------------------------------------------
(* createLayers: image.onload and the callback initialize() passes to it *)

\* ImageLoad calling onload before the listeners are registered and before
\* the first rendering.
ImageLoad_OnloadFirst ==
  /\ ~Has(canvas, "width")
  /\ canvas' = [width |-> ImageWidth, height |-> ImageHeight]
  /\ wired' = Has(options, "onchange")
  /\ LET r == renderGraph(graph, options, canvas', rendered)
     IN /\ rendered' = r.ops
        /\ error' = IF r.threw THEN "TypeError" ELSE "none"
        /\ calls' = IF Has(options, "onload")
                    THEN Append(calls, CallOf("onload", null, graph,
                                              NoPosition, rendered, canvas',
                                              mousestatus, current_node, wired))
                    ELSE calls
  /\ last' = <<"load">>
  /\ UNCHANGED <<graph, options, mousestatus, current_node, ngestures,
                 nsetcalls, placement>>

\* ImageLoad registering the listeners whatever the options hold.
ImageLoad_AlwaysWires ==
  /\ ~Has(canvas, "width")
  /\ canvas' = [width |-> ImageWidth, height |-> ImageHeight]
  /\ wired' = TRUE
  /\ LET r == renderGraph(graph, options, canvas', rendered)
     IN /\ rendered' = r.ops
        /\ error' = IF r.threw THEN "TypeError" ELSE "none"
        /\ calls' = IF ~r.threw /\ Has(options, "onload")
                    THEN Append(calls, CallOf("onload", null, graph,
                                              NoPosition, r.ops, canvas',
                                              mousestatus, current_node, wired'))
                    ELSE calls
  /\ last' = <<"load">>
  /\ UNCHANGED <<graph, options, mousestatus, current_node, ngestures,
                 nsetcalls, placement>>

ImageLoad ==
  /\ ~Has(canvas, "width")
  /\ canvas' = [width |-> ImageWidth, height |-> ImageHeight]
  /\ wired' = Has(options, "onchange")
  /\ LET r == renderGraph(graph, options, canvas', rendered)
     IN /\ rendered' = r.ops
        /\ error' = IF r.threw THEN "TypeError" ELSE "none"
        /\ calls' = IF ~r.threw /\ Has(options, "onload")
                    THEN Append(calls, CallOf("onload", null, graph,
                                              NoPosition, r.ops, canvas',
                                              mousestatus, current_node, wired'))
                    ELSE calls
  /\ last' = <<"load">>
  /\ UNCHANGED <<graph, options, mousestatus, current_node, ngestures,
                 nsetcalls, placement>>

-----------------------------------------------------------------------------
(* initializeEvents: the three listeners *)

\* The event reaches no listener of the widget, or reaches one whose test of
\* mousestatus fails: no code reads the event.
NotDispatched(type) ==
  /\ last' = <<type>>
  /\ error' = "none"
  /\ UNCHANGED <<graph, options, canvas, wired, mousestatus, current_node,
                 calls, rendered, ngestures, nsetcalls, placement>>

\* The press is farther than hit_distance from every node that has a position.
FarPress(g, o, position) ==
  \A i \in Placed(g) :
    Distance2(g.nodes[i].position, position) > o.hit_distance * o.hit_distance

\* The run of first placements goes on while every press is a far press that
\* finds a node to place.
PlacementAtPress(position, target) ==
  IF placement.ok /\ FarPress(graph, options, position) /\ target # null
  THEN placement
  ELSE [ok |-> FALSE, releases |-> << >>]

PlacementAtRelease(position) ==
  IF placement.ok
  THEN [placement EXCEPT !.releases = Append(@, position)]
  ELSE placement

\* The mousedown listener without its test of mousestatus.
MouseDown_Reentrant(p) ==
  IF wired /\ OverCanvas(p)
  THEN LET target == findNode(graph, options, getPosition(p))
           u == updateNode(graph, p, target)
       IN /\ ngestures' = IF mousestatus THEN ngestures ELSE ngestures + 1
          /\ ngestures' <= MaxGestures
          /\ mousestatus' = TRUE
          /\ current_node' = target
          /\ graph' = u.graph
          /\ rendered' = u.render.ops
          /\ error' = IF u.render.threw THEN "TypeError" ELSE "none"
          /\ calls' = IF ~u.render.threw /\ Has(options, "onselect")
                      THEN Append(calls, CallOf("onselect", target, u.graph,
                                              getPosition(p), u.render.ops,
                                              canvas, TRUE, target, wired))
                      ELSE calls
          /\ last' = IF mousestatus THEN <<"mousedown">> ELSE <<"mousedown", p>>
          /\ placement' = PlacementAtPress(getPosition(p), target)
          /\ UNCHANGED <<options, canvas, wired, nsetcalls>>
  ELSE NotDispatched("mousedown")

\* The mousedown listener of the canvas.
MouseDown(p) ==
  IF wired /\ OverCanvas(p) /\ mousestatus = FALSE
  THEN LET target == findNode(graph, options, getPosition(p))
           u == updateNode(graph, p, target)
       IN /\ ngestures < MaxGestures
          /\ ngestures' = ngestures + 1
          /\ mousestatus' = TRUE
          /\ current_node' = target
          /\ graph' = u.graph
          /\ rendered' = u.render.ops
          /\ error' = IF u.render.threw THEN "TypeError" ELSE "none"
          /\ calls' = IF ~u.render.threw /\ Has(options, "onselect")
                      THEN Append(calls, CallOf("onselect", target, u.graph,
                                              getPosition(p), u.render.ops, canvas, TRUE,
                                              target, wired))
                      ELSE calls
          /\ last' = <<"mousedown", p>>
          /\ placement' = PlacementAtPress(getPosition(p), target)
          /\ UNCHANGED <<options, canvas, wired, nsetcalls>>
  ELSE NotDispatched("mousedown")

\* The mousemove listener notifying onchange on every move.
MouseMove_Notifies(p) ==
  IF wired /\ OverCanvas(p) /\ mousestatus = TRUE
  THEN LET u == updateNode(graph, p, current_node)
       IN /\ graph' = u.graph
          /\ rendered' = u.render.ops
          /\ error' = IF u.render.threw THEN "TypeError" ELSE "none"
          /\ last' = <<"mousemove", p>>
          /\ calls' = Append(calls, CallOf("onchange", current_node, u.graph,
                                           getPosition(p), u.render.ops, canvas, mousestatus,
                                           current_node, wired))
          /\ UNCHANGED <<options, canvas, wired, mousestatus, current_node,
                         ngestures, nsetcalls, placement>>
  ELSE NotDispatched("mousemove")

\* The mousemove listener resolving its target again at every move.
MouseMove_Retargets(p) ==
  IF wired /\ OverCanvas(p) /\ mousestatus = TRUE
  THEN LET u == updateNode(graph, p, findNode(graph, options, getPosition(p)))
       IN /\ graph' = u.graph
          /\ rendered' = u.render.ops
          /\ error' = IF u.render.threw THEN "TypeError" ELSE "none"
          /\ last' = <<"mousemove", p>>
          /\ UNCHANGED <<options, canvas, wired, mousestatus, current_node,
                         calls, ngestures, nsetcalls, placement>>
  ELSE NotDispatched("mousemove")

\* The mousemove listener of the canvas.
MouseMove(p) ==
  IF wired /\ OverCanvas(p) /\ mousestatus = TRUE
  THEN LET u == updateNode(graph, p, current_node)
       IN /\ graph' = u.graph
          /\ rendered' = u.render.ops
          /\ error' = IF u.render.threw THEN "TypeError" ELSE "none"
          /\ last' = <<"mousemove", p>>
          /\ UNCHANGED <<options, canvas, wired, mousestatus, current_node,
                         calls, ngestures, nsetcalls, placement>>
  ELSE NotDispatched("mousemove")

\* The mouseup listener without its final updateNode.
MouseUp_NoUpdate(p) ==
  IF wired /\ mousestatus = TRUE
  THEN /\ mousestatus' = FALSE
       /\ error' = "none"
       /\ calls' = Append(calls, CallOf("onchange", current_node, graph,
                                        getPosition(p), rendered, canvas, FALSE, current_node,
                                        wired))
       /\ current_node' = null
       /\ last' = <<"mouseup", p>>
       /\ placement' = PlacementAtRelease(getPosition(p))
       /\ UNCHANGED <<graph, rendered, options, canvas, wired, ngestures,
                      nsetcalls>>
  ELSE NotDispatched("mouseup")

\* The mouseup listener invoking onchange before its final updateNode.
MouseUp_NotifyFirst(p) ==
  IF wired /\ mousestatus = TRUE
  THEN LET u == updateNode(graph, p, current_node)
       IN /\ graph' = u.graph
          /\ rendered' = u.render.ops
          /\ error' = IF u.render.threw THEN "TypeError" ELSE "none"
          /\ mousestatus' = (IF u.render.threw THEN mousestatus ELSE FALSE)
          /\ calls' = Append(calls, CallOf("onchange", current_node, graph,
                                           getPosition(p), rendered, canvas,
                                           TRUE, current_node, wired))
          /\ current_node' = (IF u.render.threw THEN current_node ELSE null)
          /\ last' = <<"mouseup", p>>
          /\ placement' = (IF u.render.threw THEN placement
                           ELSE PlacementAtRelease(getPosition(p)))
          /\ UNCHANGED <<options, canvas, wired, ngestures, nsetcalls>>
  ELSE NotDispatched("mouseup")

\* The mouseup listener of the window.
MouseUp(p) ==
  IF wired /\ mousestatus = TRUE
  THEN LET u == updateNode(graph, p, current_node)
       IN /\ graph' = u.graph
          /\ rendered' = u.render.ops
          /\ error' = IF u.render.threw THEN "TypeError" ELSE "none"
          /\ mousestatus' = (IF u.render.threw THEN mousestatus ELSE FALSE)
          /\ calls' = IF u.render.threw THEN calls
                      ELSE Append(calls, CallOf("onchange", current_node,
                                                u.graph, getPosition(p),
                                                u.render.ops, canvas,
                                                FALSE, current_node, wired))
          /\ current_node' = (IF u.render.threw THEN current_node ELSE null)
          /\ last' = <<"mouseup", p>>
          /\ placement' = (IF u.render.threw THEN placement
                           ELSE PlacementAtRelease(getPosition(p)))
          /\ UNCHANGED <<options, canvas, wired, ngestures, nsetcalls>>
  ELSE NotDispatched("mouseup")

-----------------------------------------------------------------------------
(* setNodeAttributes, setEdgeAttributes *)

\* Merge replacing the element by the attributes object.
Merge_Replace(element, attributes) == attributes

\* for (var key in attributes) element[key] = attributes[key];
Merge(element, attributes) ==
  [k \in DOMAIN element \cup DOMAIN attributes |->
     IF k \in DOMAIN attributes THEN attributes[k] ELSE element[k]]

\* MergeRange creating the element an index outside the array names.
RECURSIVE MergeRange_Grow(_, _, _, _)
MergeRange_Grow(array, i, end, attributes) ==
  IF i >= end \/ i < 0 THEN [array |-> array, threw |-> FALSE]
  ELSE MergeRange_Grow([k \in DOMAIN array \cup {i} |->
                          IF k = i
                          THEN Merge(IF i \in DOMAIN array THEN array[i]
                                     ELSE EmptyObject, attributes)
                          ELSE array[k]],
                       i + 1, end, attributes)

\* for (var i = start; i < end; ++i) ..., from index i on.  Assigning a key
\* of an element that does not exist raises a TypeError and ends the call.
RECURSIVE MergeRange(_, _, _, _)
MergeRange(array, i, end, attributes) ==
  IF i >= end THEN [array |-> array, threw |-> FALSE]
  ELSE IF i \notin DOMAIN array
       THEN IF DOMAIN attributes # {}
            THEN [array |-> array, threw |-> TRUE]
            ELSE MergeRange(array, i + 1, end, attributes)
       ELSE MergeRange([array EXCEPT ![i] = Merge(array[i], attributes)],
                       i + 1, end, attributes)

\* The arguments of a call: <<attributes>> or <<index, attributes>>.
ArgIndexed(args) == Len(args) = 2

ArgAttributes(args) == args[Len(args)]

\* var start = 0, end = graph.nodes.length; ... start = index; end = index + 1;
NodeRangeEnd(g, args) == IF ArgIndexed(args) THEN args[1] + 1 ELSE Length(g.nodes)

EdgeRangeEnd(g, args) == IF ArgIndexed(args) THEN args[1] + 1 ELSE Length(g.nodes)

RangeStart(args) == IF ArgIndexed(args) THEN args[1] ELSE 0

\* What follows the loops of a setter: renderGraph(), unless the loop raised.
SetterFinish(name, args, g, threw) ==
  LET r == renderGraph(g, options, canvas, rendered)
  IN /\ nsetcalls < MaxSetCalls
     /\ nsetcalls' = nsetcalls + 1
     /\ graph' = g
     /\ rendered' = (IF threw THEN rendered ELSE r.ops)
     /\ error' = IF threw \/ r.threw THEN "TypeError" ELSE "none"
     /\ last' = <<name, args>>
     /\ UNCHANGED <<options, canvas, wired, mousestatus, current_node, calls,
                    ngestures, placement>>

setNodeAttributes(args) ==
  LET m == MergeRange(graph.nodes, RangeStart(args), NodeRangeEnd(graph, args),
                      ArgAttributes(args))
  IN SetterFinish("setNodeAttributes", args,
                  [graph EXCEPT !.nodes = m.array], m.threw)

setEdgeAttributes(args) ==
  LET m == MergeRange(graph.edges, RangeStart(args), EdgeRangeEnd(graph, args),
                      ArgAttributes(args))
  IN SetterFinish("setEdgeAttributes", args,
                  [graph EXCEPT !.edges = m.array], m.threw)

\* The attribute objects the setters are called with.
AttributeInputs ==
  { EmptyObject,
    [color |-> <<1, 2, 3>>],
    [line_width |-> 5],
    [color |-> <<255, 255, 0>>, line_width |-> 0, diameter |-> 7],
    [diameter |-> 0] }

\* The indices the setters are called with: the valid ones and one on each
\* side of the range.
IndexInputs(array) == (0 - 1)..Length(array)

SetterArgs(array) ==
  {<<a>> : a \in AttributeInputs} \cup (IndexInputs(array) \X AttributeInputs)

-----------------------------------------------------------------------------
(* Specifications *)

\* The annotation gestures.
Next ==
  \/ ImageLoad
  \/ \E p \in RawPoints : MouseDown(p)
  \/ \E p \in RawPoints : MouseMove(p)
  \/ \E p \in RawPoints : MouseUp(p)

Spec == Init /\ [][Next]_vars

\* The attribute setters.
NextAttr ==
  \/ ImageLoad
  \/ \E args \in SetterArgs(graph.nodes) : setNodeAttributes(args)
  \/ \E args \in SetterArgs(graph.edges) : setEdgeAttributes(args)

SpecAttr == InitAttr /\ [][NextAttr]_vars

\* The attribute objects of the specification of gestures and setters
\* together: a documented attribute, and the key that holds an edge's
\* endpoints.
StructuralInputs ==
  { [color |-> <<1, 2, 3>>],
    [index |-> <<0, 1>>] }

\* Calls on every element, and one on the index after the last one.
StructuralArgs(array) ==
  {<<a>> : a \in StructuralInputs} \cup
  {<<Length(array), [color |-> <<1, 2, 3>>]>>}

AllOptionChoices ==
  { [graph |-> Loops, onchange |-> TRUE, onselect |-> TRUE,
     hit_distance |-> 1] }

InitAll == InitWith(AllOptionChoices)

\* Gestures and attribute setters in any order.
NextAll ==
  \/ Next
  \/ \E args \in StructuralArgs(graph.nodes) : setNodeAttributes(args)
  \/ \E args \in StructuralArgs(graph.edges) : setEdgeAttributes(args)

SpecAll == InitAll /\ [][NextAll]_vars

\* The annotation gestures on a malformed graph.
SpecInvalid == InitInvalid /\ [][Next]_vars

-----------------------------------------------------------------------------
(* Properties of the progression and of the hit test *)

\* The smallest element of a non-empty set of indices, the largest one.
Lowest(S) == CHOOSE i \in S : \A j \in S : i <= j

Highest(S) == CHOOSE i \in S : \A j \in S : i >= j

\* The first node without a position, none when every node has one.
FirstUnplaced(g) == IF Unplaced(g) = {} THEN null ELSE Lowest(Unplaced(g))

\* C1: in every reachable state getNextNode() returns the smallest node
\* index whose position is unset, and returns none (null) if and only if
\* every node has a position.
C1_NextNodeIsSmallestUnplaced ==
  LET r == getNextNode(graph, options)
  IN /\ (r = null) <=> (Unplaced(graph) = {})
     /\ r # null => /\ r \in Unplaced(graph)
                    /\ \A j \in Unplaced(graph) : r <= j

\* Two gestures have completed the annotation of a 2-node graph and the
\* onchange callback of the second one saw getNextNode() return null.
C1_Witness ==
  /\ Length(graph.nodes) = 2
  /\ ngestures = 2
  /\ Unplaced(graph) = {}
  /\ calls # << >>
  /\ calls[Len(calls)].callback = "onchange"
  /\ calls[Len(calls)].next = null

\* The onselect and onchange invocations, in order.
GestureCalls == SelectSeq(calls, LAMBDA c : c.callback # "onload")

\* C2: with onselect and onchange configured, every gesture press -> moves ->
\* release invokes onselect exactly once (at the press) and onchange exactly
\* once (at the release), both with the same node index, and a move invokes
\* neither: the invocations are one (onselect, onchange) pair per completed
\* gesture, followed by the onselect of the gesture in progress if any.
C2_OneSelectOneChangePerGesture ==
  (Has(options, "onselect") /\ Has(options, "onchange")) =>
    LET g == GestureCalls
    IN /\ Len(g) = 2 * ngestures - (IF mousestatus THEN 1 ELSE 0)
       /\ \A i \in 1..Len(g) :
            /\ g[i].callback = (IF i % 2 = 1 THEN "onselect" ELSE "onchange")
            /\ i % 2 = 0 => g[i].node = g[i - 1].node
       /\ mousestatus => g[Len(g)].node = current_node

\* Two gestures on the 3-node chain are complete, four callbacks were made.
C2_Witness ==
  /\ Has(options, "onselect") /\ Has(options, "onchange")
  /\ Length(graph.nodes) = 3
  /\ mousestatus = FALSE
  /\ ngestures = 2
  /\ last[1] = "mouseup"
  /\ Len(GestureCalls) = 4

\* The nodes with a position within hit_distance of a pointer position.
Within(g, o, position) ==
  {i \in Placed(g) :
     Distance2(g.nodes[i].position, position) <= o.hit_distance * o.hit_distance}

\* Those of them at the minimum distance.
Nearest(g, o, position) ==
  {i \in Within(g, o, position) :
     \A j \in Within(g, o, position) :
       Distance2(g.nodes[i].position, position) <=
       Distance2(g.nodes[j].position, position)}

\* C3: hit-testing a pointer position returns a node with a position at the
\* minimum distance from the pointer, provided that distance is at most
\* hit_distance (inclusive), so the only node within hit_distance when there
\* is exactly one; when no node with a position is within hit_distance it
\* returns the first node without a position.
C3_HitTestNearestWithinRadius ==
  \A position \in CanvasPoints :
    LET r == findNode(graph, options, position)
    IN IF Within(graph, options, position) # {}
       THEN r \in Nearest(graph, options, position)
       ELSE r = FirstUnplaced(graph)

\* A second or later press found node 0 again while two or more nodes have a
\* position: the hit test chose it, at zero distance from the pointer now.
C3_Witness ==
  /\ mousestatus = TRUE
  /\ last[1] = "mousedown"
  /\ ngestures >= 2
  /\ current_node = 0
  /\ Cardinality(Placed(graph)) >= 2
  /\ options.hit_distance = 1

\* C4, as stated: when two or more nodes are at the same minimum distance
\* from the pointer and within hit_distance, the hit test returns the one
\* with the lowest index.
C4_TieReturnsLowestIndex ==
  \A position \in CanvasPoints :
    Cardinality(Nearest(graph, options, position)) >= 2 =>
      findNode(graph, options, position) =
        Lowest(Nearest(graph, options, position))

\* C4, amended: when two or more nodes are at the same minimum distance
\* from the pointer and within hit_distance, the hit test returns the one
\* with the highest index.
C4_TieReturnsHighestIndex ==
  \A position \in CanvasPoints :
    Cardinality(Nearest(graph, options, position)) >= 2 =>
      findNode(graph, options, position) =
        Highest(Nearest(graph, options, position))

\* The listeners are idle and some pixel is at the same distance, within
\* hit_distance 1, of two nodes placed by two gestures.
C4_Witness ==
  /\ wired /\ mousestatus = FALSE
  /\ options.hit_distance = 1
  /\ ngestures = 2
  /\ last[1] = "mouseup"
  /\ \E position \in CanvasPoints :
       Cardinality(Nearest(graph, options, position)) = 2

-----------------------------------------------------------------------------
(* Properties of the gestures *)

\* C5: starting from an untouched graph with N nodes, after k <= N gestures
\* each pressed farther than hit_distance from every node placed so far,
\* exactly the nodes 0..k-1 have a position, node j at the clamped release
\* coordinate of gesture j+1, and getNextNode() returns k, or null when k = N.
C5_FirstPlacementsInOrder ==
  (placement.ok /\ mousestatus = FALSE) =>
    LET k == Len(placement.releases)
    IN /\ k <= Length(graph.nodes)
       /\ Placed(graph) = 0..(k - 1)
       /\ \A j \in 0..(k - 1) :
            graph.nodes[j].position = placement.releases[j + 1]
       /\ getNextNode(graph, options) =
            (IF k = Length(graph.nodes) THEN null ELSE k)

\* Two far gestures have annotated a 2-node graph, the last one released
\* outside the canvas.
C5_Witness ==
  /\ placement.ok
  /\ mousestatus = FALSE
  /\ Len(placement.releases) = 2
  /\ Length(graph.nodes) = 2
  /\ last[1] = "mouseup"
  /\ ~OverCanvas(last[2])

\* Key k reads the same on two objects.
SameKey(a, b, k) == (Has(a, k) <=> Has(b, k)) /\ (Has(a, k) => a[k] = b[k])

\* The step changes nothing of the graph but the position of node t.
OnlyPositionOf(t) ==
  /\ graph'.edges = graph.edges
  /\ DOMAIN graph'.nodes = DOMAIN graph.nodes
  /\ \A i \in DOMAIN graph.nodes :
       IF i = t
       THEN /\ Has(graph'.nodes[i], "position")
            /\ \A k \in (DOMAIN graph.nodes[i] \cup DOMAIN graph'.nodes[i])
                          \ {"position"} :
                 SameKey(graph.nodes[i], graph'.nodes[i], k)
       ELSE graph'.nodes[i] = graph.nodes[i]

\* The step invokes the one callback name, with node t.
Invokes(name, t) ==
  /\ Len(calls') = Len(calls) + 1
  /\ SubSeq(calls', 1, Len(calls)) = calls
  /\ calls'[Len(calls')].callback = name
  /\ calls'[Len(calls')].node = t

\* C6: a gesture pressed within hit_distance of a node that has a position
\* binds such a node and, at the press, at every move and at the release,
\* overwrites only that node's position: every other node, that node's
\* other keys, every edge and the length and order of both lists are
\* unchanged; onselect (if configured) is invoked with its index at the
\* press and onchange at the release.
C6_ReselectionOverwritesOnlyTarget ==
  [][ \A p \in RawPoints :
        /\ (last' = <<"mousedown", p>> /\
            ~FarPress(graph, options, getPosition(p)))
           => /\ current_node' \in Placed(graph)
              /\ OnlyPositionOf(current_node')
              /\ graph'.nodes[current_node'].position = getPosition(p)
              /\ IF Has(options, "onselect")
                 THEN Invokes("onselect", current_node')
                 ELSE calls' = calls
        /\ (last' = <<"mousemove", p>> /\ current_node # null)
           => /\ OnlyPositionOf(current_node)
              /\ graph'.nodes[current_node].position = getPosition(p)
              /\ calls' = calls
        /\ (last' = <<"mouseup", p>> /\ current_node # null)
           => /\ OnlyPositionOf(current_node)
              /\ graph'.nodes[current_node].position = getPosition(p)
              /\ Invokes("onchange", current_node)
    ]_vars

\* Node 0 of the default graph was placed by one gesture and moved by a
\* later one: onchange was invoked twice with index 0, and node 1 and the
\* edge are as constructed.
C6_Witness ==
  /\ mousestatus = FALSE
  /\ last[1] = "mouseup"
  /\ Cardinality({i \in 1..Len(calls) :
                    calls[i].callback = "onchange" /\ calls[i].node = 0}) = 2
  /\ graph.nodes[1] = DefaultGraph.nodes[1]
  /\ graph.edges = DefaultGraph.edges
  /\ Has(graph.nodes[0], "name")

\* C10, as stated: while a drag is in progress with a bound target, a move
\* event sets the bound node's position to the clamped coordinate wherever
\* the pointer is, and so does a release event, which also ends the gesture
\* and invokes onchange.
C10_DragHandledWhereverThePointerIs ==
  [][ (mousestatus = TRUE /\ current_node # null) =>
        \A p \in RawPoints :
          /\ MouseMove(p) =>
               graph'.nodes[current_node].position = getPosition(p)
          /\ MouseUp(p) =>
               /\ graph'.nodes[current_node].position = getPosition(p)
               /\ mousestatus' = FALSE
               /\ Invokes("onchange", current_node)
    ]_vars

-----------------------------------------------------------------------------
(* Properties of the attribute setters *)

\* The call's index is an index of the array, or the call has no index.
InRange(args, array) == ArgIndexed(args) => args[1] \in DOMAIN array

\* The elements a call with a valid index, or with none, is about.
Targets(args, array) == IF ArgIndexed(args) THEN {args[1]} ELSE DOMAIN array

\* C7: setNodeAttributes(i, attrs) overwrites exactly the keys of attrs on
\* node i and on no other node; setNodeAttributes(attrs) overwrites those
\* keys on every node; every other key of every node keeps its prior value
\* (or stays unset), so that a later call wins over an earlier one.
C7_SetNodeAttributesMerges ==
  [][ \A args \in SetterArgs(graph.nodes) :
        (last' = <<"setNodeAttributes", args>> /\ InRange(args, graph.nodes))
        => /\ DOMAIN graph'.nodes = DOMAIN graph.nodes
           /\ \A i \in DOMAIN graph.nodes :
                \A k \in DOMAIN graph.nodes[i] \cup DOMAIN graph'.nodes[i]
                           \cup DOMAIN ArgAttributes(args) :
                  IF i \in Targets(args, graph.nodes) /\
                     k \in DOMAIN ArgAttributes(args)
                  THEN /\ Has(graph'.nodes[i], k)
                       /\ graph'.nodes[i][k] = ArgAttributes(args)[k]
                  ELSE SameKey(graph.nodes[i], graph'.nodes[i], k)
    ]_vars

\* setNodeAttributes(1, {color: [1,2,3]}) then setNodeAttributes({line_width:
\* 5}) on the default graph: node 1 has that color and line width 5, node 0
\* has no color and line width 5, and both kept their names.
C7_Witness ==
  /\ last = <<"setNodeAttributes", <<[line_width |-> 5]>>>>
  /\ nsetcalls = 2
  /\ Length(graph.nodes) = 2
  /\ graph.nodes[1] = [name |-> "node2", color |-> <<1, 2, 3>>, line_width |-> 5]
  /\ graph.nodes[0] = [name |-> "node1", line_width |-> 5]

\* C8, as stated: once the image has loaded, setEdgeAttributes(attrs) with
\* the index omitted merges attrs into every edge and changes no node,
\* completes without error and redraws the graph, whatever the node count
\* and the edge count.
C8_SetEdgeAttributesOfAllEdges ==
  [][ \A a \in AttributeInputs :
        (Has(canvas, "width") /\ last' = <<"setEdgeAttributes", <<a>>>>)
        => /\ error' = "none"
           /\ DOMAIN graph'.edges = DOMAIN graph.edges
           /\ \A i \in DOMAIN graph.edges :
                graph'.edges[i] = Merge(graph.edges[i], a)
           /\ graph'.nodes = graph.nodes
           /\ rendered' = renderGraph(graph', options, canvas, rendered).ops
    ]_vars

\* C9, as stated: setNodeAttributes(index, attrs) and setEdgeAttributes(index,
\* attrs) with an index outside the range of the nodes, respectively of the
\* edges, signal an error and leave the graph unchanged.
C9_IndexOutOfRangeSignalled ==
  [][ \A a \in AttributeInputs :
        /\ \A i \in IndexInputs(graph.nodes) \ DOMAIN graph.nodes :
             last' = <<"setNodeAttributes", <<i, a>>>>
             => (error' # "none" /\ graph' = graph)
        /\ \A i \in IndexInputs(graph.edges) \ DOMAIN graph.edges :
             last' = <<"setEdgeAttributes", <<i, a>>>>
             => (error' # "none" /\ graph' = graph)
    ]_vars

-----------------------------------------------------------------------------
(* Properties of the targets of the callbacks *)

\* The positions of the nodes, by index.
Positions(g) == [i \in Placed(g) |-> g.nodes[i].position]

\* C11, as stated: in a graph with at least one node every press resolves a
\* target, so every onselect and every onchange invocation receives the
\* index of an existing node whose position the gesture has set, never none;
\* and a gesture whose press resolved no target changes no node position.
C11_CallbacksReceiveAnExistingNode ==
  [][ /\ Length(graph.nodes) >= 1 =>
           \A i \in 1..Len(calls') :
             calls'[i].callback # "onload" =>
               /\ calls'[i].node \in DOMAIN graph.nodes
               /\ calls'[i].moved
      /\ (mousestatus' /\ current_node' = null) =>
           Positions(graph') = Positions(graph)
      /\ (mousestatus /\ current_node = null) =>
           Positions(graph') = Positions(graph)
    ]_vars

-----------------------------------------------------------------------------
(* Properties of the topology *)

\* The keys of a node or an edge that hold its appearance.
Visual == {"color", "line_width", "diameter"}

\* Every key of the elements of an array other than the given ones is the
\* same, present or absent, in two graphs.
SameExcept(before, after, keys) ==
  /\ DOMAIN after = DOMAIN before
  /\ \A i \in DOMAIN before :
       \A k \in (DOMAIN before[i] \cup DOMAIN after[i]) \ keys :
         SameKey(before[i], after[i], k)

\* C12, as stated: no gesture and no setNodeAttributes or setEdgeAttributes
\* call changes the number of nodes, the number of edges or the pair of
\* endpoints of an edge: what changes in an edge is a visual attribute.
C12_TopologyNeverChanges ==
  [][ /\ DOMAIN graph'.nodes = DOMAIN graph.nodes
      /\ SameExcept(graph.edges, graph'.edges, Visual)
      /\ \A e \in DOMAIN graph.edges :
           graph'.edges[e].index = graph.edges[e].index
    ]_vars

\* C12, amended: the numbers of nodes and of edges never change, and gestures
\* and setNodeAttributes calls leave every edge as it is; a setter merges
\* every key of its attributes, so setEdgeAttributes called with a key index
\* replaces the endpoints of the edges it reaches, and only such a call
\* changes endpoints.  Besides positions, nodes and edges change only in the
\* keys the setter was given.
C12_TopologyChangesOnlyBySetterKey ==
  [][ /\ DOMAIN graph'.nodes = DOMAIN graph.nodes
      /\ DOMAIN graph'.edges = DOMAIN graph.edges
      /\ last'[1] \notin {"setNodeAttributes", "setEdgeAttributes"} =>
           /\ SameExcept(graph.nodes, graph'.nodes, {"position"})
           /\ graph'.edges = graph.edges
      /\ last'[1] = "setNodeAttributes" =>
           /\ SameExcept(graph.nodes, graph'.nodes,
                         DOMAIN ArgAttributes(last'[2]))
           /\ graph'.edges = graph.edges
      /\ last'[1] = "setEdgeAttributes" =>
           /\ SameExcept(graph.edges, graph'.edges,
                         DOMAIN ArgAttributes(last'[2]))
           /\ graph'.nodes = graph.nodes
           /\ \A e \in DOMAIN graph.edges :
                graph'.edges[e].index # graph.edges[e].index =>
                  /\ Has(ArgAttributes(last'[2]), "index")
                  /\ graph'.edges[e].index = ArgAttributes(last'[2]).index
    ]_vars

\* After a gesture has placed the node, setEdgeAttributes({index: [0, 1]})
\* has given edge 0 an endpoint that is not a node, and the rendering raised.
C12_Witness ==
  /\ ngestures >= 1
  /\ Placed(graph) # {}
  /\ last = <<"setEdgeAttributes", <<[index |-> <<0, 1>>]>>>>
  /\ graph.edges[0].index = <<0, 1>>
  /\ graph.edges[0].index[2] \notin DOMAIN graph.nodes
  /\ error = "TypeError"

-----------------------------------------------------------------------------
(* Properties of the image load *)

OnloadCalls(log) == SelectSeq(log, LAMBDA c : c.callback = "onload")

\* C13: as long as the image has not loaded, no pointer event changes the
\* graph or invokes a callback, the listeners are not registered and onload
\* has not been called; the load event calls a configured onload once, after
\* the listeners the options ask for are registered and after the first
\* rendering, and onload is never called again.
C13_OnloadAndWiringAfterLoad ==
  [][ /\ ~Has(canvas', "width") =>
           /\ calls' = << >>
           /\ ~wired'
           /\ graph' = graph
           /\ rendered' = << >>
      /\ last' = <<"load">> =>
           /\ wired' = Has(options, "onchange")
           /\ rendered' = renderGraph(graph', options, canvas', rendered).ops
           /\ Has(options, "onload") =>
                /\ Len(calls') = 1
                /\ calls'[1].callback = "onload"
                /\ calls'[1].wired = Has(options, "onchange")
                /\ calls'[1].fresh
      /\ Has(canvas', "width") =>
           Len(OnloadCalls(calls')) = IF Has(options, "onload") THEN 1 ELSE 0
    ]_vars

\* The image of an annotator constructed with a graph that has a node
\* placed, with onchange and with onload has loaded: the listeners are
\* registered, the node is on the canvas and onload has been called.
C13_Witness ==
  /\ last = <<"load">>
  /\ wired
  /\ rendered # << >>
  /\ Len(calls) = 1
  /\ calls[1].callback = "onload"
  /\ calls[1].wired
  /\ calls[1].fresh

-----------------------------------------------------------------------------
(* Properties of an annotator without onchange *)

PointerEvents == {"mousedown", "mousemove", "mouseup"}

\* C14, as stated: without an onchange callback a press over the canvas still
\* places or moves the node the hit test resolves, as it does with onchange,
\* and no onchange is invoked and no error is raised.
C14_SilentGesturesStillPlace ==
  [][ \A p \in CanvasPoints :
        ( /\ ~Has(options, "onchange")
          /\ Has(canvas, "width")
          /\ MouseDown(p)
          /\ findNode(graph, options, p) # null )
        => /\ graph' = SetPosition(graph, findNode(graph, options, p), p)
           /\ calls' = calls \/ calls'[Len(calls')].callback # "onchange"
           /\ error' = "none"
    ]_vars

\* C14, amended: without an onchange callback the load registers no listener
\* at all, so no pointer event, before or after the load, reaches the widget:
\* it places or moves no node, starts no gesture, invokes no callback, onselect
\* included, redraws nothing and raises no error.
C14_NoOnchangeNoListeners ==
  [][ ~Has(options, "onchange") =>
        /\ ~wired'
        /\ last'[1] \in PointerEvents =>
             /\ Len(last') = 1
             /\ graph' = graph
             /\ calls' = calls
             /\ rendered' = rendered
             /\ error' = "none"
             /\ ~mousestatus'
             /\ current_node' = null
             /\ ngestures' = 0
    ]_vars

\* The image of an annotator with onselect and onload but no onchange has
\* loaded, onload has been called, and a press, which may be over the canvas,
\* has been made: no node has a position and onselect has not been called.
C14_Witness ==
  /\ ~Has(options, "onchange")
  /\ Has(options, "onselect")
  /\ Has(canvas, "width")
  /\ last = <<"mousedown">>
  /\ Placed(graph) = {}
  /\ Len(calls) = 1
  /\ ~mousestatus

-----------------------------------------------------------------------------
(* Properties of a malformed graph *)

\* Some edge has an endpoint that is not the index of a node.
InvalidTopology(g) ==
  \E e \in DOMAIN g.edges :
    \E k \in 1..2 : g.edges[e].index[k] \notin DOMAIN g.nodes

\* C15, as stated: an annotator constructed with a graph in which an edge
\* names a node index outside 0..nodeCount-1 has signalled InvalidTopology
\* when the constructor returns, and no rendering ever raises because of the
\* edge.
C15_InvalidTopologySignalledAtConstruction ==
  InvalidTopology(graph) =>
    /\ last = <<"create">> => error = "InvalidTopology"
    /\ error # "TypeError"

-----------------------------------------------------------------------------
(* Properties of the gesture in progress *)

\* C16: a press received while the mouse-down flag is set is ignored: the
\* bound target stays as it is and is not resolved again, no node position
\* and nothing else of the graph changes, nothing is redrawn and no callback,
\* onselect included, is invoked; the gesture in progress goes on.
C16_PressWhileDraggingIgnored ==
  [][ (mousestatus /\ last'[1] = "mousedown") =>
        /\ Len(last') = 1
        /\ current_node' = current_node
        /\ mousestatus'
        /\ graph' = graph
        /\ rendered' = rendered
        /\ calls' = calls
        /\ ngestures' = ngestures
        /\ error' = "none"
    ]_vars

\* During the gesture that drags node 0 of a graph with a node yet to place,
\* a press has been made: node 0 is still the bound target and the other
\* node has no position.
C16_Witness ==
  /\ mousestatus
  /\ last = <<"mousedown">>
  /\ current_node = 0
  /\ Unplaced(graph) # {}
  /\ getNextNode(graph, options) # current_node
  /\ Has(options, "onselect")
  /\ Len(GestureCalls) = 1

\* The coordinate a raw pointer coordinate is clamped to, on a surface of the
\* given size.
Clamp(c, size) == IF c < 0 THEN 0 ELSE IF c > size - 1 THEN size - 1 ELSE c

Clamped(p) == <<Clamp(p[1], canvas.width), Clamp(p[2], canvas.height)>>

\* C17: a release during a gesture sets the position of the bound node to
\* the clamped release coordinate and redraws the graph, then invokes
\* onchange with the bound target, which finds the final position in
\* getGraph(), the progression of that graph in getNextNode() and that graph
\* on the canvas, while the target is still bound; after the release the
\* mouse-down flag is false and no target is bound.
C17_ReleaseUpdatesRedrawsNotifiesClears ==
  [][ (last'[1] = "mouseup" /\ Len(last') = 2) =>
        LET onchange == calls'[Len(calls')]
        IN /\ mousestatus
           /\ current_node # null =>
                /\ graph' = SetPosition(graph, current_node, Clamped(last'[2]))
                /\ graph'.nodes[current_node].position = Clamped(last'[2])
                /\ onchange.moved
           /\ current_node = null => graph' = graph
           /\ rendered' = renderGraph(graph', options, canvas, rendered).ops
           /\ Len(calls') = Len(calls) + 1
           /\ onchange.callback = "onchange"
           /\ onchange.node = current_node
           /\ onchange.fresh
           /\ onchange.next = getNextNode(graph', options)
           /\ onchange.current_node = current_node
           /\ ~onchange.mousestatus
           /\ ~mousestatus'
           /\ current_node' = null
    ]_vars

\* A gesture on node 0 has been released beyond the corner of the canvas:
\* node 0 is at the corner, onchange has been told so while the target was
\* bound, and the controller is idle.
C17_Witness ==
  /\ last = <<"mouseup", <<ImageWidth - 1 + Margin, 0 - Margin>>>>
  /\ Has(graph.nodes[0], "position")
  /\ graph.nodes[0].position = <<ImageWidth - 1, 0>>
  /\ calls[Len(calls)].callback = "onchange"
  /\ calls[Len(calls)].node = 0
  /\ calls[Len(calls)].moved
  /\ calls[Len(calls)].current_node = 0
  /\ ~mousestatus
  /\ current_node = null

\* C18: under pointer events a node that has a position keeps having one,
\* and the position of a node changes, or is first set, only in a step of a
\* gesture whose bound target is that node: the press that binds it, or a
\* move or the release while it is bound.
C18_PositionsChangeOnlyForBoundTarget ==
  [][ /\ Placed(graph) \subseteq Placed(graph')
      /\ \A i \in Placed(graph') :
           (i \notin Placed(graph) \/
            graph'.nodes[i].position # graph.nodes[i].position) =>
             /\ Len(last') = 2
             /\ \/ last'[1] = "mousedown" /\ ~mousestatus /\ current_node' = i
                \/ /\ last'[1] \in {"mousemove", "mouseup"}
                   /\ mousestatus
                   /\ current_node = i
    ]_vars

\* Node 0 is being dragged and a move has brought it onto node 1, which was
\* placed before: node 0 is still the bound target and node 1 is where it
\* was.
C18_Witness ==
  /\ mousestatus
  /\ current_node = 0
  /\ last[1] = "mousemove"
  /\ Len(last) = 2
  /\ Placed(graph) = {0, 1}
  /\ graph.nodes[0].position = graph.nodes[1].position
  /\ graph.nodes[0].position = getPosition(last[2])

\* C19: every node position a press, a move or a release writes is on the
\* drawing surface, 0 <= x <= width-1 and 0 <= y <= height-1, whatever the raw
\* pointer coordinate: a coordinate below 0 is written as 0 and one beyond
\* the surface as width-1 or height-1, one inside as it is.
C19_WrittenPositionsClamped ==
  [][ (last'[1] \in PointerEvents /\ Len(last') = 2) =>
        \A i \in Placed(graph') :
          (i \notin Placed(graph) \/
           graph'.nodes[i].position # graph.nodes[i].position) =>
            LET raw == last'[2]
                position == graph'.nodes[i].position
            IN /\ 0 <= position[1] /\ position[1] <= canvas.width - 1
               /\ 0 <= position[2] /\ position[2] <= canvas.height - 1
               /\ position[1] = IF raw[1] < 0 THEN 0
                                ELSE IF raw[1] > canvas.width - 1
                                     THEN canvas.width - 1 ELSE raw[1]
               /\ position[2] = IF raw[2] < 0 THEN 0
                                ELSE IF raw[2] > canvas.height - 1
                                     THEN canvas.height - 1 ELSE raw[2]
    ]_vars

\* A gesture that pressed on the right of the canvas has been released to the
\* left of the canvas and below it: the node is on the left edge, in the
\* bottom row.
C19_Witness ==
  /\ last = <<"mouseup", <<0 - Margin, ImageHeight - 1 + Margin>>>>
  /\ ngestures = 1
  /\ Placed(graph) = {0}
  /\ graph.nodes[0].position = <<0, ImageHeight - 1>>
  /\ rendered # << >>
  /\ rendered[Len(rendered)].center = <<0, ImageHeight - 1>>

-----------------------------------------------------------------------------
(* Properties of the canvas *)

\* C20: once the image has loaded, after every handler and every attribute
\* setter call the canvas shows the current graph: what the last rendering
\* stroked is what a rendering of the graph as it is now strokes, so nothing
\* of the graph has been changed after the last rendering.
C20_CanvasShowsCurrentGraph ==
  (Has(canvas, "width") /\ last # <<"create">>) =>
    rendered = renderGraph(graph, options, canvas, rendered).ops

-----------------------------------------------------------------------------
(* Properties of the rendering *)

\* The edges whose two endpoints both have a position.
Drawable(g) ==
  {e \in DOMAIN g.edges :
     /\ g.edges[e].index[1] \in Placed(g)
     /\ g.edges[e].index[2] \in Placed(g)}

\* C21: what a rendering leaves on the cleared canvas is, first, one line for
\* every edge whose two endpoints have a position, and for no other edge, in
\* edge order, from the position of its first endpoint to that of its second;
\* then one circle for every node that has a position, and for no other node,
\* in node order, at its position; every line is stroked before every circle,
\* and the rendering at the load leaves the graph as it is.
C21_EdgesThenNodesInOrder ==
  [][ /\ Has(canvas', "width") =>
           LET ne == Cardinality(Drawable(graph'))
               nn == Cardinality(Placed(graph'))
           IN /\ Len(rendered') = ne + nn
              /\ \A k \in 1..ne :
                   /\ rendered'[k].kind = "edge"
                   /\ rendered'[k].element \in Drawable(graph')
                   /\ rendered'[k].moveTo =
                        graph'.nodes[graph'.edges[rendered'[k].element].index[1]].position
                   /\ rendered'[k].lineTo =
                        graph'.nodes[graph'.edges[rendered'[k].element].index[2]].position
                   /\ k > 1 => rendered'[k - 1].element < rendered'[k].element
              /\ \A k \in (ne + 1)..(ne + nn) :
                   /\ rendered'[k].kind = "node"
                   /\ rendered'[k].element \in Placed(graph')
                   /\ rendered'[k].center = graph'.nodes[rendered'[k].element].position
                   /\ k > ne + 1 => rendered'[k - 1].element < rendered'[k].element
      /\ last' = <<"load">> => graph' = graph
    ]_vars

\* Two nodes of a chain of three have been placed: the canvas holds the line
\* of edge 0, then the circles of nodes 0 and 1; edge 1, which ends at the
\* node without a position, and that node are not drawn.
C21_Witness ==
  /\ Length(graph.nodes) = 3
  /\ Placed(graph) = {0, 1}
  /\ Drawable(graph) = {0}
  /\ Len(rendered) = 3
  /\ rendered[1].kind = "edge" /\ rendered[1].element = 0
  /\ rendered[2].kind = "node" /\ rendered[2].element = 0
  /\ rendered[3].kind = "node" /\ rendered[3].element = 1

\* The style value the precedence gives: the element's own value when it has
\* the key, else the option of the widget when it is configured, else the
\* fallback.
Resolved(element, key, okey, fallback) ==
  IF Has(element, key) THEN element[key]
  ELSE IF Has(options, okey) THEN options[okey]
  ELSE fallback

\* C22, as stated: every line and every circle a rendering strokes has each
\* of its style values from the element's own override when it has one, the
\* value 0 included, else from the option of the widget, else from the
\* fallback: line width 3, diameter 3, color [0,255,255].
C22_ElementOverrideAlwaysWins ==
  (Has(canvas, "width") /\ error = "none") =>
    \A k \in 1..Len(rendered) :
      LET op == rendered[k]
          element == IF op.kind = "edge" THEN graph.edges[op.element]
                     ELSE graph.nodes[op.element]
      IN /\ op.lineWidth = Resolved(element, "line_width", "line_width", 3)
         /\ op.strokeStyle =
              formatRGB(Resolved(element, "color",
                                 IF op.kind = "edge" THEN "edge_color"
                                 ELSE "node_color", <<0, 255, 255>>))
         /\ op.kind = "node" =>
              op.radius = Resolved(element, "diameter", "node_diameter", 3)

====
